---- MODULE Spec2Model ----
(***************************************************************************)
(* Model of crate.client.converter: the DataType enumeration, the          *)
(* built-in converter functions, the Converter registry (get / set),       *)
(* descriptor resolution (col_type_to_converter), plan application         *)
(* (convert) and DefaultTypeConverter.                                     *)
(*                                                                         *)
(* Python values are tagged tuples so that values of different Python      *)
(* types can be compared:                                                  *)
(*   <<"null">>            None                                            *)
(*   <<"str", s>>          a str                                           *)
(*   <<"num", n>>          an int / float                                  *)
(*   <<"list", items>>     a list (items is a sequence of values)          *)
(*   <<"IPv4Address", s>>  ipaddress.IPv4Address parsed from text          *)
(*   <<"IPv4Address_from_int", n>>  ipaddress.IPv4Address built from an int *)
(*   <<"datetime", s, ms>> datetime (seconds, milliseconds since epoch)    *)
(*   <<"tagged", v>>       result of the caller-supplied function "tag"    *)
(*   <<"raise", kind>>     the call raised an exception                    *)
(* A type descriptor is <<"int", code>> or <<"list", outer, inner>>.       *)
(* A converter definition (plan) is <<"fn", name>> or                      *)
(* <<"tuple", name, innerPlan>>; a failed resolution is <<"raise", kind>>. *)
(***************************************************************************)
EXTENDS Integers, Sequences, FiniteSets, TLC

VARIABLES
    heap,     \* the dict objects: heap[1] is the module-level _DEFAULT_CONVERTERS
    convs,    \* the Converter instances: class, _mappings (a dict object), _default
    passed,   \* the dicts the caller built to pass as `mappings`: object, content as built
    lastSet,  \* per instance: the mapping content at construction, the set calls since
    cur,      \* the converter definition the caller resolved last
    trial     \* the last convert call: its value and its result

vars == <<heap, convs, passed, lastSet, cur, trial>>

-----------------------------------------------------------------------------
(* Bounds of the model. *)

MaxLen == 2
MaxDepth == 2
MaxConverters == 2
MaxPassed == 1

-----------------------------------------------------------------------------
(* class DataType(Enum) *)

IP == 5
TIMESTAMP_WITH_TZ == 11
TIMESTAMP_WITHOUT_TZ == 15
ARRAY == 100

DataType == (0..16) \cup (19..27) \cup {ARRAY}

TEXT == 4

-----------------------------------------------------------------------------
(* Python values. *)

Null == <<"null">>
Str(s) == <<"str", s>>
Num(n) == <<"num", n>>
List(items) == <<"list", items>>
Raise(kind) == <<"raise", kind>>

IsNull(v) == v[1] = "null"
IsList(v) == v[1] = "list"
IsStr(v) == v[1] = "str"
IsRaise(v) == v[1] = "raise"

(* Iterating a str yields its characters, each a str of length one. *)
Chars(s) ==
    CASE s = "10.10.10.1" -> <<"1", "0", ".", "1", "0", ".", "1", "0", ".", "1">>
      [] s = "B'0110'" -> <<"B", "'", "0", "1", "1", "0", "'">>
      [] OTHER -> <<s>>

(* for item in value *)
Items(v) == IF IsList(v) THEN v[2] ELSE [i \in DOMAIN Chars(v[2]) |-> Str(Chars(v[2])[i])]

ValidAddresses == {"10.10.10.1", "10.10.10.2", "10.10.10.3"}

(* The bit-string literals the caller's BIT converter can parse, with the  *)
(* value of int(value[2:-1], 2).                                           *)
BitLiterals == {"B'0110'", "B'0000'"}
BitValue(s) == IF s = "B'0110'" THEN 6 ELSE 0

-----------------------------------------------------------------------------
(* Converter functions. *)

_to_ipaddress(value) ==
    IF IsNull(value) THEN Null
    ELSE IF value[1] = "str" /\ value[2] \in ValidAddresses
         THEN <<"IPv4Address", value[2]>>
         ELSE IF value[1] = "num"
              THEN <<"IPv4Address_from_int", value[2]>>
              ELSE Raise("ValueError")

_to_datetime(value) ==
    IF IsNull(value) THEN Null
    ELSE IF value[1] = "num"
         THEN <<"datetime", value[2] \div 1000, value[2] % 1000>>
         ELSE Raise("TypeError")

_to_default(value) == value

(* lambda value: value is not None and int(value[2:-1], 2) or None *)
to_bit(value) ==
    IF IsNull(value) THEN Null
    ELSE IF value[1] = "str" /\ value[2] \in BitLiterals
         THEN IF BitValue(value[2]) = 0 THEN Null ELSE Num(BitValue(value[2]))
         ELSE IF value[1] = "str" THEN Raise("ValueError")
         ELSE Raise("TypeError")

(* A caller-supplied function that gives None a meaning of its own. *)
to_tag(value) == <<"tagged", value>>

BuiltinFns == {"_to_ipaddress", "_to_datetime", "_to_default"}
CallerFns == {"to_bit", "to_tag"}
Fns == BuiltinFns \cup CallerFns

(* converter_definition(value) for a function object *)
call(fn, value) ==
    CASE fn = "_to_ipaddress" -> _to_ipaddress(value)
      [] fn = "_to_datetime" -> _to_datetime(value)
      [] fn = "_to_default" -> _to_default(value)
      [] fn = "to_bit" -> to_bit(value)
      [] fn = "to_tag" -> to_tag(value)

_DEFAULT_CONVERTERS ==
    [t \in {IP, TIMESTAMP_WITH_TZ, TIMESTAMP_WITHOUT_TZ} |->
        IF t = IP THEN "_to_ipaddress" ELSE "_to_datetime"]

-----------------------------------------------------------------------------
(* Converter.get, Converter.set on a mappings dictionary. *)

get(mappings, default, type_) ==
    IF type_ \in DOMAIN mappings THEN mappings[type_] ELSE default

(* Variant: self._mappings = {type_: converter} *)
set_replace(mappings, type_, converter) ==
    [t \in {type_} |-> converter]

set(mappings, type_, converter) ==
    [t \in (DOMAIN mappings) \cup {type_} |->
        IF t = type_ THEN converter ELSE mappings[t]]

-----------------------------------------------------------------------------
(* Converter.col_type_to_converter *)

IsCompound(d) == d[1] = "list"

(* Variant: the outer type of a list is not checked to be ARRAY. *)
RECURSIVE col_type_to_converter_nocheck(_, _, _)
col_type_to_converter_nocheck(mappings, default, type_) ==
    IF IsCompound(type_)
    THEN LET outer == type_[2]
             inner == col_type_to_converter_nocheck(mappings, default, type_[3])
         IN  IF outer \notin DataType THEN Raise("ValueError: not a valid DataType")
             ELSE IF IsRaise(inner) THEN inner
                  ELSE <<"tuple", get(mappings, default, outer), inner>>
    ELSE IF type_[2] \notin DataType THEN Raise("ValueError: not a valid DataType")
         ELSE <<"fn", get(mappings, default, type_[2])>>

(* Variant: self.get(type_) is called with the integer, not DataType(type_). *)
RECURSIVE col_type_to_converter_lenient(_, _, _)
col_type_to_converter_lenient(mappings, default, type_) ==
    IF IsCompound(type_)
    THEN LET outer == type_[2]
             inner == col_type_to_converter_lenient(mappings, default, type_[3])
         IN  IF outer # ARRAY
             THEN Raise("ValueError: not implemented as collection type")
             ELSE IF IsRaise(inner) THEN inner
                  ELSE <<"tuple", get(mappings, default, outer), inner>>
    ELSE <<"fn", get(mappings, default, type_[2])>>

RECURSIVE col_type_to_converter(_, _, _)
col_type_to_converter(mappings, default, type_) ==
    IF IsCompound(type_)
    THEN LET outer == type_[2]
             inner_type == type_[3]
         IN  IF outer \notin DataType THEN Raise("ValueError: not a valid DataType")
             ELSE IF outer # ARRAY
                  THEN Raise("ValueError: not implemented as collection type")
                  ELSE LET inner == col_type_to_converter(mappings, default, inner_type)
                       IN  IF IsRaise(inner) THEN inner
                           ELSE <<"tuple", get(mappings, default, outer), inner>>
    ELSE IF type_[2] \notin DataType THEN Raise("ValueError: not a valid DataType")
         ELSE <<"fn", get(mappings, default, type_[2])>>

-----------------------------------------------------------------------------
(* Converter.convert *)

FirstRaised(items) ==
    LET failed == {i \in DOMAIN items : IsRaise(items[i])}
    IN  items[CHOOSE i \in failed : \A j \in failed : i <= j]

(* Variant: None items are left out of the result. *)
RECURSIVE convert_dropnull(_, _)
convert_dropnull(converter_definition, value) ==
    IF converter_definition[1] = "tuple"
    THEN LET inner_type == converter_definition[3]
         IN  IF IsNull(value) THEN convert_dropnull(inner_type, Null)
             ELSE IF IsList(value) \/ IsStr(value)
                  THEN LET kept == SelectSeq(Items(value), LAMBDA item : ~IsNull(item))
                           items == [i \in DOMAIN kept |-> convert_dropnull(inner_type, kept[i])]
                       IN  IF \A i \in DOMAIN items : ~IsRaise(items[i]) THEN List(items)
                           ELSE FirstRaised(items)
                  ELSE Raise("TypeError")
    ELSE call(converter_definition[2], value)

(* Variant: a None value of a collection is returned as None at once. *)
RECURSIVE convert_shortcircuit(_, _)
convert_shortcircuit(converter_definition, value) ==
    IF converter_definition[1] = "tuple"
    THEN LET inner_type == converter_definition[3]
         IN  IF IsNull(value) THEN Null
             ELSE IF IsList(value) \/ IsStr(value)
                  THEN LET items == [i \in DOMAIN Items(value) |->
                                        convert_shortcircuit(inner_type, Items(value)[i])]
                       IN  IF \A i \in DOMAIN items : ~IsRaise(items[i]) THEN List(items)
                           ELSE FirstRaised(items)
                  ELSE Raise("TypeError")
    ELSE call(converter_definition[2], value)

(* Variant: the function of the collection type is applied to the list. *)
RECURSIVE convert_callwrapper(_, _)
convert_callwrapper(converter_definition, value) ==
    IF converter_definition[1] = "tuple"
    THEN LET inner_type == converter_definition[3]
         IN  IF IsNull(value) THEN convert_callwrapper(inner_type, Null)
             ELSE IF IsList(value) \/ IsStr(value)
                  THEN LET items == [i \in DOMAIN Items(value) |->
                                        convert_callwrapper(inner_type, Items(value)[i])]
                       IN  IF \A i \in DOMAIN items : ~IsRaise(items[i])
                           THEN call(converter_definition[2], List(items))
                           ELSE FirstRaised(items)
                  ELSE Raise("TypeError")
    ELSE call(converter_definition[2], value)

RECURSIVE convert(_, _)
convert(converter_definition, value) ==
    IF converter_definition[1] = "tuple"
    THEN LET inner_type == converter_definition[3]
         IN  IF IsNull(value) THEN convert(inner_type, Null)
             ELSE IF IsList(value) \/ IsStr(value)
                  THEN LET items == [i \in DOMAIN Items(value) |->
                                        convert(inner_type, Items(value)[i])]
                       IN  IF \A i \in DOMAIN items : ~IsRaise(items[i]) THEN List(items)
                           ELSE FirstRaised(items)
                  ELSE Raise("TypeError")
    ELSE call(converter_definition[2], value)

-----------------------------------------------------------------------------
(* Inputs. *)

(* Type codes of the descriptors: TEXT, IP, a timestamp, ARRAY, and 17,    *)
(* which is not a member of DataType.                                      *)
ScalarCodes == {TEXT, IP, TIMESTAMP_WITH_TZ, 17, ARRAY}
OuterCodes == {ARRAY, IP, 17}

SetTypes == {IP, ARRAY}
SetFns == CallerFns
DefaultFns == {"_to_default", "to_tag"}

EmptyMapping == [t \in {} |-> "_to_default"]
CallerMappings == {EmptyMapping, [t \in {IP} |-> "to_tag"]}

RECURSIVE Descriptors(_)
Descriptors(depth) ==
    IF depth = 0 THEN {<<"int", c>> : c \in ScalarCodes}
    ELSE Descriptors(depth - 1) \cup
         {<<"list", o, d>> : o \in OuterCodes, d \in Descriptors(depth - 1)}

SeqsUpTo(S, n) == UNION {[1..k -> S] : k \in 0..n}

Atoms == {Null, Str("10.10.10.1"), Str("B'0110'"), Num(1500)}

(* The inner lists of test_execute_nested_array_with_converter. *)
InnerLists ==
    { List(<<Str("10.10.10.1"), Str("10.10.10.2")>>),
      List(<<Str("10.10.10.3")>>),
      List(<<>>) }

Values == Atoms \cup {List(items) : items \in SeqsUpTo(Atoms \cup InnerLists, MaxLen)}

-----------------------------------------------------------------------------
(* The state machine. *)

NoPlan == [resolved |-> FALSE, conv |-> 0, desc |-> <<"none">>,
           plan |-> <<"none">>, at |-> EmptyMapping]
NoTrial == [done |-> FALSE, value |-> <<"none">>, result |-> <<"none">>]

Instance(cls, dict, default) == [cls |-> cls, mappings |-> dict, default |-> default]
History(init) == [init |-> init, set |-> EmptyMapping]
Logged(h, type_, converter) ==
    [h EXCEPT !.set = [t \in (DOMAIN h.set) \cup {type_} |->
                          IF t = type_ THEN converter ELSE h.set[t]]]

(* self.mappings of instance c *)
mappings(c) == heap[convs[c].mappings]

Init ==
    /\ heap = <<_DEFAULT_CONVERTERS>>
    /\ convs = <<>>
    /\ passed = <<>>
    /\ lastSet = <<>>
    /\ cur = NoPlan
    /\ trial = NoTrial

(* The caller builds a dict to pass as `mappings`. *)
MakeMapping(m) ==
    /\ Len(passed) < MaxPassed
    /\ heap' = Append(heap, m)
    /\ passed' = Append(passed, [dict |-> Len(heap) + 1, made |-> m])
    /\ UNCHANGED <<convs, lastSet, cur, trial>>

(* Converter(mappings=None, default=default): self._mappings = mappings or {} *)
NewConverterNone(default) ==
    /\ Len(convs) < MaxConverters
    /\ heap' = Append(heap, EmptyMapping)
    /\ convs' = Append(convs, Instance("Converter", Len(heap) + 1, default))
    /\ lastSet' = Append(lastSet, History(EmptyMapping))
    /\ UNCHANGED <<passed, cur, trial>>

(* Converter(mappings=heap[d], default=default): an empty dict is falsy, so *)
(* `mappings or {}` then creates a new dict; a non-empty one is kept as is. *)
NewConverter(d, default) ==
    /\ Len(convs) < MaxConverters
    /\ IF DOMAIN heap[d] = {}
       THEN /\ heap' = Append(heap, EmptyMapping)
            /\ convs' = Append(convs, Instance("Converter", Len(heap) + 1, default))
       ELSE /\ heap' = heap
            /\ convs' = Append(convs, Instance("Converter", d, default))
    /\ lastSet' = Append(lastSet, History(heap[d]))
    /\ UNCHANGED <<passed, cur, trial>>

(* Variant: mappings=_DEFAULT_CONVERTERS, without the deepcopy. *)
NewDefaultTypeConverter_shared ==
    /\ Len(convs) < MaxConverters
    /\ heap' = heap
    /\ convs' = Append(convs, Instance("DefaultTypeConverter", 1, "_to_default"))
    /\ lastSet' = Append(lastSet, History(heap[1]))
    /\ UNCHANGED <<passed, cur, trial>>

(* DefaultTypeConverter(): mappings=deepcopy(_DEFAULT_CONVERTERS) *)
NewDefaultTypeConverter ==
    /\ Len(convs) < MaxConverters
    /\ heap' = Append(heap, heap[1])
    /\ convs' = Append(convs, Instance("DefaultTypeConverter", Len(heap) + 1, "_to_default"))
    /\ lastSet' = Append(lastSet, History(heap[1]))
    /\ UNCHANGED <<passed, cur, trial>>

(* Variant: a resolved definition looks its functions up when it is used, *)
(* so a set reaches the definitions resolved before it.                    *)
Set_live(c, type_, converter) ==
    /\ c \in DOMAIN convs
    /\ heap' = [heap EXCEPT ![convs[c].mappings] = set(@, type_, converter)]
    /\ lastSet' = [lastSet EXCEPT ![c] = Logged(@, type_, converter)]
    /\ cur' = IF cur.resolved /\ cur.conv = c
              THEN [cur EXCEPT !.plan = col_type_to_converter(
                        heap'[convs[c].mappings], convs[c].default, cur.desc)]
              ELSE cur
    /\ UNCHANGED <<convs, passed, trial>>

(* convs[c].set(type_, converter) *)
Set(c, type_, converter) ==
    /\ c \in DOMAIN convs
    /\ heap' = [heap EXCEPT ![convs[c].mappings] = set(@, type_, converter)]
    /\ lastSet' = [lastSet EXCEPT ![c] = Logged(@, type_, converter)]
    /\ UNCHANGED <<convs, passed, cur, trial>>

(* cur = convs[c].col_type_to_converter(type_) *)
Resolve(c, type_) ==
    /\ c \in DOMAIN convs
    /\ cur' = [resolved |-> TRUE, conv |-> c, desc |-> type_,
               plan |-> col_type_to_converter(mappings(c), convs[c].default, type_),
               at |-> mappings(c)]
    /\ UNCHANGED <<heap, convs, passed, lastSet, trial>>

(* convs[cur.conv].convert(cur.plan, value) *)
Convert(value) ==
    /\ cur.resolved
    /\ ~IsRaise(cur.plan)
    /\ trial' = [done |-> TRUE, value |-> value, result |-> convert(cur.plan, value)]
    /\ UNCHANGED <<heap, convs, passed, lastSet, cur>>

(* Several instances and the dict objects they hold; the instances differ *)
(* in their mappings, all have the default function _to_default, and the   *)
(* set calls are those for IP.                                             *)
Next ==
    \/ \E m \in CallerMappings : MakeMapping(m)
    \/ NewConverterNone("_to_default")
    \/ \E i \in DOMAIN passed : NewConverter(passed[i].dict, "_to_default")
    \/ NewDefaultTypeConverter
    \/ \E c \in DOMAIN convs, f \in SetFns : Set(c, IP, f)

Spec == Init /\ [][Next]_vars

(* One instance: its registry and the definitions resolved from it. *)
InitialMappings == CallerMappings \cup {_DEFAULT_CONVERTERS}

OneInstance(ms) ==
    /\ \E m \in ms :
          /\ heap = <<_DEFAULT_CONVERTERS, m>>
          /\ lastSet = <<History(m)>>
          /\ IF m = _DEFAULT_CONVERTERS
             THEN convs = <<Instance("DefaultTypeConverter", 2, "_to_default")>>
             ELSE \E default \in DefaultFns : convs = <<Instance("Converter", 2, default)>>
    /\ passed = <<>>
    /\ cur = NoPlan
    /\ trial = NoTrial

InitOne == OneInstance(InitialMappings)

NextOne ==
    \/ \E t \in SetTypes, f \in SetFns : Set(1, t, f)
    \/ \E d \in Descriptors(MaxDepth) : Resolve(1, d)

SpecOne == InitOne /\ [][NextOne]_vars

(* One instance with a registry that stays as it is: one descriptor is     *)
(* resolved and one value is converted with the result.                    *)
ApplyMappings ==
    InitialMappings \cup
    { set(_DEFAULT_CONVERTERS, ARRAY, "to_tag"), set(_DEFAULT_CONVERTERS, IP, "to_bit") }

InitApply == OneInstance(ApplyMappings)

NextApply ==
    \/ \E d \in Descriptors(MaxDepth) : ~cur.resolved /\ Resolve(1, d)
    \/ \E v \in Values : ~trial.done /\ Convert(v)

SpecApply == InitApply /\ [][NextApply]_vars

-----------------------------------------------------------------------------
(* Helpers of the properties. *)

(* convs[c].get(type_) *)
GetOf(c, type_) == get(mappings(c), convs[c].default, type_)

(* What get must return when only the instance's own history counts: the   *)
(* function set last for the type, else the one of the initial mapping,    *)
(* else the default function.                                              *)
OwnFn(c, type_) ==
    IF type_ \in DOMAIN lastSet[c].set THEN lastSet[c].set[type_]
    ELSE IF type_ \in DOMAIN lastSet[c].init THEN lastSet[c].init[type_]
    ELSE convs[c].default

RECURSIVE DescDepth(_)
DescDepth(d) == IF IsCompound(d) THEN 1 + DescDepth(d[3]) ELSE 0

RECURSIVE PlanDepth(_)
PlanDepth(p) == IF p[1] = "tuple" THEN 1 + PlanDepth(p[3]) ELSE 0

(* Some list of the descriptor, at any depth, has an outer type other than ARRAY. *)
RECURSIVE HasBadOuter(_)
HasBadOuter(d) == IsCompound(d) /\ (d[2] # ARRAY \/ HasBadOuter(d[3]))

RECURSIVE ScalarOf(_)
ScalarOf(d) == IF IsCompound(d) THEN ScalarOf(d[3]) ELSE d[2]

RECURSIVE Wrap(_, _, _)
Wrap(n, wrapper, leaf) == IF n = 0 THEN leaf ELSE <<"tuple", wrapper, Wrap(n - 1, wrapper, leaf)>>

RECURSIVE InnermostFn(_)
InnermostFn(p) == IF p[1] = "tuple" THEN InnermostFn(p[3]) ELSE p[2]

CurDefault == convs[cur.conv].default
Resolved == cur.resolved /\ ~IsRaise(cur.plan)

-----------------------------------------------------------------------------
(* C1: after any sequence of set calls on a Converter, get(type) returns   *)
(* the function set last for that type, or the one of the initial mapping  *)
(* if the type was never set; for every type that is not registered it     *)
(* returns the instance's default function; get returns a function for     *)
(* every member of DataType.                                               *)
C1_GetReturnsLastSet ==
    \A c \in DOMAIN convs : \A t \in DataType :
        /\ GetOf(c, t) = OwnFn(c, t)
        /\ GetOf(c, t) \in Fns
        /\ t \notin DOMAIN mappings(c) => GetOf(c, t) = convs[c].default

C1_Witness ==
    /\ convs # <<>>
    /\ IP \in DOMAIN lastSet[1].set /\ IP \in DOMAIN lastSet[1].init
    /\ lastSet[1].set[IP] # lastSet[1].init[IP]
    /\ GetOf(1, IP) = lastSet[1].set[IP]
    /\ TIMESTAMP_WITH_TZ \in DOMAIN mappings(1)
    /\ ARRAY \notin DOMAIN mappings(1)

(* C2: resolving a list descriptor fails whenever the outer type of the    *)
(* list, or of a list nested in it at any depth, is not ARRAY; when every  *)
(* outer type is ARRAY (and the scalar type is a DataType) the result is   *)
(* the pair (get(ARRAY), resolve(inner)), nested as deep as the descriptor. *)
C2_CompoundResolve ==
    (cur.resolved /\ IsCompound(cur.desc)) =>
        /\ HasBadOuter(cur.desc) => IsRaise(cur.plan)
        /\ (~HasBadOuter(cur.desc) /\ ScalarOf(cur.desc) \in DataType) =>
              /\ cur.plan = Wrap(DescDepth(cur.desc),
                                 get(cur.at, CurDefault, ARRAY),
                                 <<"fn", get(cur.at, CurDefault, ScalarOf(cur.desc))>>)
              /\ cur.plan = <<"tuple", get(cur.at, CurDefault, ARRAY),
                              col_type_to_converter(cur.at, CurDefault, cur.desc[3])>>
              /\ PlanDepth(cur.plan) = DescDepth(cur.desc)

C2_Witness ==
    /\ cur.resolved
    /\ cur.desc = <<"list", ARRAY, <<"list", ARRAY, <<"int", IP>>>>>>
    /\ PlanDepth(cur.plan) = 2

(* C3 as stated: resolving a scalar code that is no member of DataType     *)
(* does not fail and yields the instance's default function.               *)
C3_UnknownCodeYieldsDefault ==
    (cur.resolved /\ ~IsCompound(cur.desc) /\ cur.desc[2] \notin DataType) =>
        cur.plan = <<"fn", CurDefault>>

(* C3 amended: resolving a scalar code that is no member of DataType fails *)
(* with the ValueError of the DataType lookup; only a member of DataType   *)
(* that is not registered yields the instance's default function.          *)
C3_UnknownCodeRaises ==
    (cur.resolved /\ ~IsCompound(cur.desc)) =>
        /\ cur.desc[2] \notin DataType =>
              cur.plan = Raise("ValueError: not a valid DataType")
        /\ (cur.desc[2] \in DataType /\ cur.desc[2] \notin DOMAIN cur.at) =>
              cur.plan = <<"fn", CurDefault>>

C3_Witness ==
    /\ cur.resolved
    /\ cur.desc = <<"int", 17>>
    /\ IsRaise(cur.plan)

(* C4: converting a non-null sequence with a pair definition returns a     *)
(* list of the same length whose element i is the inner definition applied *)
(* to element i of the input (when no element's conversion raises).        *)
C4_ShapePreserved ==
    (trial.done /\ cur.plan[1] = "tuple" /\ (IsList(trial.value) \/ IsStr(trial.value))) =>
        LET input == Items(trial.value)
            raises == \E i \in DOMAIN input : IsRaise(convert(cur.plan[3], input[i]))
        IN  IF raises THEN IsRaise(trial.result)
            ELSE /\ IsList(trial.result)
                 /\ Len(trial.result[2]) = Len(input)
                 /\ \A i \in DOMAIN input :
                        trial.result[2][i] = convert(cur.plan[3], input[i])

C4_Witness ==
    /\ trial.done
    /\ PlanDepth(cur.plan) = 2
    /\ InnermostFn(cur.plan) = "_to_ipaddress"
    /\ trial.value = List(<<List(<<Str("10.10.10.1"), Str("10.10.10.2")>>), Null>>)
    /\ trial.result = List(<<List(<<<<"IPv4Address", "10.10.10.1">>,
                                    <<"IPv4Address", "10.10.10.2">>>>), Null>>)

(* C5: converting None with a pair definition yields the inner definition  *)
(* applied to None, down to the innermost function; the result is None     *)
(* exactly when the innermost function maps None to None.                  *)
C5_NullPropagates ==
    (trial.done /\ cur.plan[1] = "tuple" /\ IsNull(trial.value)) =>
        /\ trial.result = convert(cur.plan[3], Null)
        /\ trial.result = call(InnermostFn(cur.plan), Null)
        /\ IsNull(trial.result) <=> IsNull(call(InnermostFn(cur.plan), Null))

C5_Witness ==
    /\ trial.done
    /\ PlanDepth(cur.plan) = 2
    /\ IsNull(trial.value)
    /\ InnermostFn(cur.plan) = "to_tag"
    /\ trial.result = <<"tagged", Null>>

(* C6: every DefaultTypeConverter has its own copy of the built-in         *)
(* mapping: what get returns on it is decided by the built-in mapping and  *)
(* its own set calls alone, whatever is set on other instances before or   *)
(* after it is created, and _DEFAULT_CONVERTERS itself never changes.      *)
C6_DefaultConvertersIndependent ==
    /\ heap[1] = _DEFAULT_CONVERTERS
    /\ \A c \in DOMAIN convs :
          convs[c].cls = "DefaultTypeConverter" =>
              /\ lastSet[c].init = _DEFAULT_CONVERTERS
              /\ \A t \in DataType : GetOf(c, t) = OwnFn(c, t)
              /\ \A d \in DOMAIN convs :
                    (d # c /\ convs[d].cls = "DefaultTypeConverter") =>
                        convs[d].mappings # convs[c].mappings

C6_Witness ==
    /\ Len(convs) = 2
    /\ convs[1].cls = "DefaultTypeConverter" /\ convs[2].cls = "DefaultTypeConverter"
    /\ GetOf(1, IP) = "to_tag" /\ lastSet[1].set[IP] = "to_tag"
    /\ GetOf(2, IP) = "_to_ipaddress"
    /\ mappings(2) = _DEFAULT_CONVERTERS

(* C7: the registry of a Converter belongs to that instance alone: what    *)
(* get returns on an instance is decided by its initial mapping and its    *)
(* own set calls, also when two instances were constructed from the same   *)
(* mapping, and a set never changes the mapping the caller passed in.      *)
C7_RegistryNeverShared ==
    /\ \A c \in DOMAIN convs : \A t \in DataType : GetOf(c, t) = OwnFn(c, t)
    /\ \A i \in DOMAIN passed : heap[passed[i].dict] = passed[i].made

C9_PlanIsSnapshot ==
    Resolved =>
        /\ cur.plan = col_type_to_converter(cur.at, CurDefault, cur.desc)
        /\ \A v \in Atoms \cup InnerLists :
              convert(cur.plan, v) =
                  convert(col_type_to_converter(cur.at, CurDefault, cur.desc), v)

C9_Witness ==
    /\ Resolved
    /\ cur.desc = <<"list", ARRAY, <<"int", IP>>>>
    /\ cur.at # mappings(cur.conv)
    /\ InnermostFn(cur.plan) = "_to_ipaddress"
    /\ GetOf(cur.conv, IP) = "to_tag"
    /\ \E v \in Atoms \cup InnerLists :
          convert(cur.plan, v) #
              convert(col_type_to_converter(mappings(cur.conv), CurDefault, cur.desc), v)

(* The result of the conversion just made, had the registry mapped ARRAY   *)
(* to another function (or to none) when the descriptor was resolved.      *)
SameWhateverArrayFn ==
    \A g \in Fns :
        convert(col_type_to_converter(set(cur.at, ARRAY, g), CurDefault, cur.desc),
                trial.value) = trial.result

(* C10 as stated: for every list descriptor and value, the result of the   *)
(* conversion is the same for any two registries that differ only in the   *)
(* function mapped to ARRAY.                                               *)
C10_ArrayFnNeverUsed ==
    (trial.done /\ IsCompound(cur.desc)) => SameWhateverArrayFn

(* C10 amended: the same, for the descriptors whose innermost scalar type  *)
(* is not ARRAY itself: convert never calls the function of a pair, but    *)
(* the scalar descriptor 100 resolves to the function mapped to ARRAY,     *)
(* which is then applied to the values.                                    *)
C10_ArrayFnUnusedAsWrapper ==
    (trial.done /\ IsCompound(cur.desc) /\ ScalarOf(cur.desc) # ARRAY) => SameWhateverArrayFn

C10_Witness ==
    /\ trial.done
    /\ cur.desc = <<"list", ARRAY, <<"list", ARRAY, <<"int", IP>>>>>>
    /\ ARRAY \in DOMAIN cur.at /\ cur.at[ARRAY] = "to_tag"
    /\ cur.plan[2] = "to_tag"
    /\ IsList(trial.result) /\ Len(trial.result[2]) = 2

====
